---- MODULE Spec2Model ----
(***************************************************************************)
(* A model of infpm's resolution-and-installation pipeline:                *)
(*   src/main.go (actionInstall, lines 347-409),                           *)
(*   src/package.go (PreinstallPackage, Package, PackageManager),          *)
(*   src/unnamed/part_000 (getGithubRepoName, fetchLatestGithubAsset,      *)
(*   generateId, tarExtract).                                              *)
(*                                                                         *)
(* One behaviour is one invocation of `infpm install`.  File-system paths  *)
(* are sequences of path elements (<<"root","bin","tool">> is              *)
(* root/bin/tool); the empty sequence is Go's empty string "".             *)
(*                                                                         *)
(* The parameters of the library calls are inputs of the model:            *)
(* PackageManagerOpts.SymlinkPath, PreinstallPackageOpts.UseDisk and, for  *)
(* a remote archive, PreinstallPackageOpts.RetainTarball.  actionInstall   *)
(* as written (main.go:353, 358-361) passes SymlinkPath = "",              *)
(* UseDisk = false and RetainTarball = false; the model explores these     *)
(* values and the other values the library accepts.                        *)
(***************************************************************************)
EXTENDS Integers, Sequences, FiniteSets, TLC

VARIABLES
    cfg,          \* the inputs of this invocation (command line, options, runtime)
    pc,           \* position in actionInstall / Install / fetchLatestGithubAsset
    err,          \* the error actionInstall returned ("nil": none)
    opts,         \* PreinstallPackageOpts built by actionInstall
    downloadUrl,  \* actionInstall's downloadUrl: "req" (reqPath) or an asset's URL
    ppkg,         \* *PreinstallPackage (isNil: the nil pointer)
    files,        \* the archive files: the local file "fp", the temp file "tmp"
    handles,      \* open/closed state of the file and body handles
    acq,          \* history: how acquisition ended and what it left behind
    cleanupCalls, \* history: number of times Cleanup has been entered
    fs,           \* the store and the link root: a set of directory entries
    walk,         \* Install's topLevel, dirs, executables (and the walk's history)
    pkg,          \* the *Package Install returned (isNil: nil)
    installErr,   \* the error Install returned
    linkLog,      \* history: the directories and links Install tried to create
    steps,        \* history: the steps Install has run, each with its outcome
    gh            \* fetchLatestGithubAsset's locals

vars == <<cfg, pc, err, opts, downloadUrl, ppkg, files, handles, acq,
          cleanupCalls, fs, walk, pkg, installErr, linkLog, steps, gh>>

(***************************************************************************)
(* Bounds of the model.                                                    *)
(***************************************************************************)
\* The operator answers the asset prompt at most this many times.
MaxPrompts == 2

(***************************************************************************)
(* Paths: path/filepath on sequences of elements.                          *)
(***************************************************************************)
\* The byte order of the file names used, as os.ReadDir sorts them.
LexOrder == <<"a", "bin", "lib", "libfoo.so", "pkgroot", "share", "tool", "zdir">>

Rank(n) == CHOOSE i \in 1..Len(LexOrder) : LexOrder[i] = n

Range(s) == {s[i] : i \in 1..Len(s)}

IsPrefix(p, q) == Len(p) <= Len(q) /\ SubSeq(q, 1, Len(p)) = p

\* filepath.Dir and filepath.Base of a path with at least one element.
Dir(p) == SubSeq(p, 1, Len(p) - 1)

Base(p) == p[Len(p)]

\* filepath.Clean: ".." removes the element before it; at the start of a
\* relative path it stays.
RECURSIVE CleanFrom(_, _)
CleanFrom(done, rest) ==
    IF rest = <<>> THEN done
    ELSE IF rest[1] = ".." /\ done # <<>> /\ done[Len(done)] # ".."
         THEN CleanFrom(SubSeq(done, 1, Len(done) - 1), Tail(rest))
         ELSE CleanFrom(Append(done, rest[1]), Tail(rest))

Clean(p) == CleanFrom(<<>>, p)

\* filepath.Join: concatenate and Clean.
Join(p, q) == Clean(p \o q)

RECURSIVE CommonLen(_, _)
CommonLen(p, q) ==
    IF p # <<>> /\ q # <<>> /\ p[1] = q[1]
    THEN 1 + CommonLen(Tail(p), Tail(q))
    ELSE 0

\* filepath.Rel(base, targ) for two clean paths of the same kind: one ".."
\* for each element of base below the common prefix, then the rest of targ.
Rel(base, targ) ==
    LET c == CommonLen(base, targ)
    IN  [i \in 1..(Len(base) - c) |-> ".."] \o SubSeq(targ, c + 1, Len(targ))

(***************************************************************************)
(* The file system: a set of entries, at most one for each path.  The      *)
(* working directory and the directories above it (the empty path and      *)
(* paths made of ".." only) always exist.                                  *)
(***************************************************************************)
DirEntry(p) == [path |-> p, kind |-> "dir", target |-> <<>>, exec |-> FALSE]

FileEntry(p, x) == [path |-> p, kind |-> "file", target |-> <<>>, exec |-> x]

LinkEntry(p, t) == [path |-> p, kind |-> "link", target |-> t, exec |-> FALSE]

Implicit(p) == \A i \in 1..Len(p) : p[i] = ".."

Exists(f, p) == Implicit(p) \/ \E e \in f : e.path = p

IsDirAt(f, p) == Implicit(p) \/ \E e \in f : e.path = p /\ e.kind = "dir"

Prefixes(p) == {SubSeq(p, 1, i) : i \in 1..Len(p)}

\* os.MkdirAll(p): fails when p or a path above it exists and is no directory;
\* otherwise creates p and every missing directory above it.
MkdirAllOk(f, p) == \A q \in Prefixes(p) : Exists(f, q) => IsDirAt(f, q)

MkdirAll(f, p) == f \cup {DirEntry(q) : q \in {r \in Prefixes(p) : ~Exists(f, r)}}

\* os.Symlink(src, dst): fails when dst exists or its parent is no directory.
SymlinkOk(f, dst) == ~Exists(f, dst) /\ IsDirAt(f, Dir(dst))

Symlink(f, src, dst) == f \cup {LinkEntry(dst, src)}

(***************************************************************************)
(* Inputs.                                                                 *)
(***************************************************************************)
\* DEFAULT_STORE_PATH = "./test/infpm", as filepath.Join cleans it.
DEFAULT_STORE_PATH == <<"test", "infpm">>

\* PackageManagerOpts.SymlinkPath: empty (what main.go:353 passes) or a link root.
SymlinkPaths == {<<>>, <<"root">>}

\* --name and --version.
Names == {"", "pkg"}

Versions == {"", "v1"}

\* Results of generateId: five letters of idLetters.
Ids == {"aB3dE", "share"}

\* The command-line argument as url.ParseRequestURI sees it.  segs is
\* strings.Split(u.Path, "/"): "/alecks/infpm" splits into "", "alecks", "infpm".
\* The github.com paths are /alecks/infpm, //infpm, /alecks/ and
\* /alecks/infpm/releases.
NoUrl == [parses |-> FALSE, scheme |-> "", host |-> "", segs |-> <<>>]

Urls ==
    { NoUrl,
      [parses |-> TRUE, scheme |-> "ftp", host |-> "example.com", segs |-> <<"", "pkg.tar">>],
      [parses |-> TRUE, scheme |-> "https", host |-> "example.com", segs |-> <<"", "pkg.tar">>],
      [parses |-> TRUE, scheme |-> "https", host |-> "example.com", segs |-> <<"", "alecks", "infpm">>],
      [parses |-> TRUE, scheme |-> "https", host |-> "github.com", segs |-> <<"", "alecks", "infpm">>],
      [parses |-> TRUE, scheme |-> "https", host |-> "github.com", segs |-> <<"", "", "infpm">>],
      [parses |-> TRUE, scheme |-> "https", host |-> "github.com", segs |-> <<"", "alecks", "">>],
      [parses |-> TRUE, scheme |-> "https", host |-> "github.com",
       segs |-> <<"", "alecks", "infpm", "releases">>] }

\* What is under the link root before the invocation: nothing, a bin
\* directory, or a bin directory that already holds bin/tool.
InitialLinkRoots ==
    { {},
      {DirEntry(<<"root">>), DirEntry(<<"root", "bin">>)},
      {DirEntry(<<"root">>), DirEntry(<<"root", "bin">>),
       LinkEntry(<<"root", "bin", "tool">>, <<"usr", "tool">>)} }

Configs ==
    { c \in [ reqEmpty : BOOLEAN, file : BOOLEAN, name : Names, version : Versions,
              url : Urls, localFile : {"absent", "present", "unreadable"},
              useDisk : BOOLEAN, retain : BOOLEAN, symlinkPath : SymlinkPaths,
              linkRoot : InitialLinkRoots ] :
        /\ c.file => (c.url = NoUrl /\ ~c.useDisk /\ ~c.retain)
        /\ c.url.host = "github.com" => (~c.useDisk /\ ~c.retain)
        /\ ~c.file => c.localFile = "absent"
        /\ c.reqEmpty => (c.file /\ c.localFile = "absent" /\ c.name = "" /\ c.version = "") }

\* The configuration actionInstall builds at main.go:353 and 358-361.
IsCommandLineConfig(c) == c.symlinkPath = <<>> /\ ~c.useDisk /\ ~c.retain

(***************************************************************************)
(* PreinstallPackage (package.go:16-41).                                   *)
(***************************************************************************)
NilPreinstallPackage ==
    [ isNil |-> TRUE, Name |-> "", Version |-> "", UseDisk |-> FALSE,
      RetainTarball |-> FALSE, Id |-> "", Path |-> <<>>, Initialised |-> FALSE,
      tarballPath |-> "", tarballReader |-> "nil" ]

\* p := &PreinstallPackage{}
EmptyPreinstallPackage == [NilPreinstallPackage EXCEPT !.isNil = FALSE]

\* Mutant of setOptsFails: the name is not checked.
setOptsFailsVersionOnly(o) == o.Version = ""

\* setOpts's guard (package.go:46).
setOptsFails(o) == o.Version = "" \/ o.Name = ""

\* setOpts's assignments (package.go:50-52), id being generateId's result.
setOpts(p, o, id) ==
    [p EXCEPT !.Name = o.Name, !.Version = o.Version, !.UseDisk = o.UseDisk,
              !.RetainTarball = o.RetainTarball, !.Id = id,
              !.Path = Join(Join(<<o.Name>>, <<o.Version>>), <<id>>)]

\* Cleanup dereferences its receiver (p.Name, package.go:131): on the nil
\* pointer it panics.
CleanupPanics(p) == p.isNil

\* Mutant of CleanupFiles: the archive is removed whatever RetainTarball says.
CleanupFilesIgnoringRetain(p, f) ==
    IF p.tarballPath # "" THEN [f EXCEPT ![p.tarballPath] = "absent"] ELSE f

\* os.Remove(p.tarballPath) unless RetainTarball (package.go:132-134); removing
\* "" or a missing file is an error Cleanup ignores.
CleanupFiles(p, f) ==
    IF ~p.RetainTarball /\ p.tarballPath # ""
    THEN [f EXCEPT ![p.tarballPath] = "absent"]
    ELSE f

\* p.tarballReader.Close() when there is a reader (package.go:135-137).
CleanupHandles(p, h) ==
    IF p.tarballReader # "nil"
    THEN [h EXCEPT ![p.tarballReader] = "closed"]
    ELSE h

NoAcq == [mode |-> "none", stage |-> "none", status |-> 0, snapshot |-> "absent"]

NilPackage == [isNil |-> TRUE, FullPath |-> <<>>, Symlinked |-> FALSE]

NoWalk == [topLevel |-> <<>>, dirs |-> <<>>, executables |-> <<>>,
           entered |-> {}, visited |-> <<>>]

NoGh == [status |-> 0, decoded |-> FALSE, scored |-> FALSE,
         release |-> [TagName |-> "", Assets |-> <<>>],
         runtime |-> [GOOS |-> "", GOARCH |-> ""],
         potentialAssets |-> <<>>, prompts |-> 0, chosen |-> -1]

Init ==
    /\ cfg \in Configs
    /\ pc = "start"
    /\ err = "nil"
    /\ opts = [Name |-> "", Version |-> "", UseDisk |-> FALSE, RetainTarball |-> FALSE]
    /\ downloadUrl = "req"
    /\ ppkg = NilPreinstallPackage
    /\ files = [fp |-> cfg.localFile, tmp |-> "absent"]
    /\ handles = [tempFile |-> "none", reader |-> "none", body |-> "none"]
    /\ acq = NoAcq
    /\ cleanupCalls = 0
    /\ fs = cfg.linkRoot
    /\ walk = NoWalk
    /\ pkg = NilPackage
    /\ installErr = "nil"
    /\ linkLog = <<>>
    /\ steps = <<>>
    /\ gh = NoGh

(***************************************************************************)
(* actionInstall (main.go:347-409), acquisition (package.go:59-172).       *)
(***************************************************************************)
\* NewPackageManager's guard (package.go:311).
NewPackageManagerFails(o) == o.SymlinkPath = <<>> \/ o.StorePath = <<>>

PackageManagerOpts == [StorePath |-> DEFAULT_STORE_PATH, SymlinkPath |-> cfg.symlinkPath]

\* main.go:348-361: the argument check, NewPackageManager with
\* PackageManager.Init (package.go:327-341), and the options from the flags.
\* denied: the operating system refuses to create a root directory.
ActionInstallStart ==
    /\ pc = "start"
    /\ UNCHANGED <<cfg, downloadUrl, ppkg, files, handles, acq, cleanupCalls,
                   walk, pkg, installErr, linkLog, steps, gh>>
    /\ \E denied \in BOOLEAN :
         IF cfg.reqEmpty
         THEN /\ pc' = "returned" /\ err' = "argument required"
              /\ UNCHANGED <<opts, fs>>
         ELSE IF NewPackageManagerFails(PackageManagerOpts)
         THEN /\ pc' = "returned" /\ err' = "StorePath and SymlinkPath required"
              /\ UNCHANGED <<opts, fs>>
         ELSE IF denied \/ ~MkdirAllOk(fs, PackageManagerOpts.StorePath)
                        \/ ~MkdirAllOk(fs, PackageManagerOpts.SymlinkPath)
         THEN /\ pc' = "returned" /\ err' = "mkdir root"
              /\ UNCHANGED <<opts, fs>>
         ELSE /\ fs' = MkdirAll(MkdirAll(fs, PackageManagerOpts.StorePath),
                                PackageManagerOpts.SymlinkPath)
              /\ opts' = [Name |-> cfg.name, Version |-> cfg.version,
                          UseDisk |-> cfg.useDisk, RetainTarball |-> cfg.retain]
              /\ pc' = IF cfg.file THEN "from_file" ELSE "parse_url"
              /\ err' = "nil"

\* actionInstall's handling of a failed acquisition (main.go:367-370 and
\* 393-396): ppkg.Cleanup() on the pointer the constructor returned, then
\* return err.  The constructors return nil with every error.
AcquisitionFailed(p, e) ==
    /\ ppkg' = p
    /\ cleanupCalls' = cleanupCalls + 1
    /\ IF CleanupPanics(p)
       THEN /\ pc' = "panicked" /\ err' = "nil"
       ELSE /\ pc' = "returned" /\ err' = e

\* main.go:365-370 with NewPackageFromFile (package.go:101-126).
AcquireFromFile ==
    /\ pc = "from_file"
    /\ UNCHANGED <<cfg, downloadUrl, fs, walk, pkg, installErr, linkLog, steps, gh>>
    /\ opts' = [opts EXCEPT !.RetainTarball = TRUE]
    /\ \E id \in Ids :
         IF setOptsFails(opts')
         THEN /\ AcquisitionFailed(NilPreinstallPackage, "name and version must be non-empty")
              /\ acq' = [acq EXCEPT !.mode = "file", !.stage = "setOpts"]
              /\ UNCHANGED <<files, handles>>
         ELSE IF files.fp # "present"
         THEN /\ AcquisitionFailed(NilPreinstallPackage,
                                   IF files.fp = "absent" THEN "not exist" ELSE "permission")
              /\ acq' = [acq EXCEPT !.mode = "file", !.stage = "open"]
              /\ UNCHANGED <<files, handles>>
         ELSE /\ ppkg' = [setOpts(EmptyPreinstallPackage, opts', id) EXCEPT
                             !.tarballPath = "fp", !.tarballReader = "reader",
                             !.Initialised = TRUE]
              /\ handles' = [handles EXCEPT !.reader = "open"]
              /\ acq' = [acq EXCEPT !.mode = "file", !.stage = "ok", !.snapshot = files.fp]
              /\ pc' = "install"
              /\ UNCHANGED <<files, err, cleanupCalls>>

\* getGithubRepoName (part_000:36-43): "" is modelled as the empty path element.
getGithubRepoName(u) ==
    IF u.host = "github.com" /\ Len(u.segs) - 1 = 2 THEN u.segs[3] ELSE ""

\* main.go:372-391 up to the call of fetchLatestGithubAsset.
ParseUrl ==
    /\ pc = "parse_url"
    /\ UNCHANGED <<cfg, opts, downloadUrl, ppkg, files, handles, acq, cleanupCalls,
                   fs, walk, pkg, installErr, linkLog, steps, gh>>
    /\ IF ~cfg.url.parses
       THEN pc' = "returned" /\ err' = "invalid URL"
       ELSE IF cfg.url.scheme # "http" /\ cfg.url.scheme # "https"
       THEN pc' = "returned" /\ err' = "non-http URL"
       ELSE /\ pc' = IF getGithubRepoName(cfg.url) # "" THEN "gh_get" ELSE "from_remote"
            /\ err' = "nil"

\* The faults of a remote acquisition that apply in each mode.
RemoteFaults(useDisk) ==
    IF useDisk THEN {"none", "createTemp", "get", "copy", "open"} ELSE {"none", "get"}

\* main.go:393-396 with NewPackageFromRemote (package.go:59-99), downloadRemote
\* (141-161) and readRemote (163-172).  fault: the step that fails; status: the
\* status of the response (http.Get reports no error for it).
AcquireFromRemote ==
    /\ pc = "from_remote"
    /\ UNCHANGED <<cfg, opts, downloadUrl, fs, walk, pkg, installErr, linkLog, steps, gh>>
    /\ \E id \in Ids, fault \in RemoteFaults(opts.UseDisk), status \in {200, 404} :
         LET mode == IF opts.UseDisk THEN "disk" ELSE "memory" IN
         IF setOptsFails(opts)
         THEN /\ AcquisitionFailed(NilPreinstallPackage, "name and version must be non-empty")
              /\ acq' = [acq EXCEPT !.mode = mode, !.stage = "setOpts"]
              /\ UNCHANGED <<files, handles>>
         ELSE IF fault = "createTemp"
         THEN /\ AcquisitionFailed(NilPreinstallPackage, "create temp")
              /\ acq' = [acq EXCEPT !.mode = mode, !.stage = fault]
              /\ UNCHANGED <<files, handles>>
         ELSE IF fault = "get"
         THEN /\ AcquisitionFailed(NilPreinstallPackage, "GET failed")
              /\ acq' = [acq EXCEPT !.mode = mode, !.stage = fault]
              /\ files' = IF opts.UseDisk THEN [files EXCEPT !.tmp = "empty"] ELSE files
              /\ handles' = IF opts.UseDisk THEN [handles EXCEPT !.tempFile = "open"]
                            ELSE handles
         ELSE IF fault = "copy"
         THEN /\ AcquisitionFailed(NilPreinstallPackage, "copy failed")
              /\ acq' = [acq EXCEPT !.mode = mode, !.stage = fault, !.status = status]
              /\ files' = [files EXCEPT !.tmp = "partial"]
              /\ handles' = [handles EXCEPT !.tempFile = "open", !.body = "closed"]
         ELSE IF fault = "open"
         THEN /\ AcquisitionFailed(NilPreinstallPackage, "open failed")
              /\ acq' = [acq EXCEPT !.mode = mode, !.stage = fault, !.status = status]
              /\ files' = [files EXCEPT !.tmp = "present"]
              /\ handles' = [handles EXCEPT !.tempFile = "open", !.body = "closed"]
         ELSE /\ ppkg' = IF opts.UseDisk
                         THEN [setOpts(EmptyPreinstallPackage, opts, id) EXCEPT
                                  !.tarballPath = "tmp", !.tarballReader = "reader",
                                  !.Initialised = TRUE]
                         ELSE [setOpts(EmptyPreinstallPackage, opts, id) EXCEPT
                                  !.tarballReader = "body", !.Initialised = TRUE]
              /\ files' = IF opts.UseDisk THEN [files EXCEPT !.tmp = "present"] ELSE files
              /\ handles' = IF opts.UseDisk
                            THEN [handles EXCEPT !.tempFile = "open", !.body = "closed",
                                                 !.reader = "open"]
                            ELSE [handles EXCEPT !.body = "open"]
              /\ acq' = [acq EXCEPT !.mode = mode, !.stage = "ok", !.status = status,
                                    !.snapshot = files'.tmp]
              /\ pc' = "install"
              /\ UNCHANGED <<err, cleanupCalls>>

(***************************************************************************)
(* fetchLatestGithubAsset (part_000:53-119).                               *)
(***************************************************************************)
\* An asset's name is the sequence of the words in it; strings.ToLower maps
\* each word to its lower-case form.
ToLowerWord(w) ==
    CASE w = "Linux" -> "linux"
      [] w = "AMD64" -> "amd64"
      [] OTHER -> w

ToLower(name) == [i \in 1..Len(name) |-> ToLowerWord(name[i])]

\* strings.Contains(name, kw): every string contains "".
Contains(name, kw) == kw = "" \/ \E i \in 1..Len(name) : name[i] = kw

\* alternativeArchKeywords (main.go:300); a missing key yields "".
alternativeArchKeywords(k) ==
    CASE k = "darwin" -> "macos"
      [] k = "amd64" -> "x86"
      [] OTHER -> ""

\* runtime.GOOS and runtime.GOARCH.
Runtimes == { [GOOS |-> "linux", GOARCH |-> "amd64"],
              [GOOS |-> "darwin", GOARCH |-> "arm64"] }

\* part_000:81.
wantedKeywords(rt) ==
    <<rt.GOOS, rt.GOARCH, alternativeArchKeywords(rt.GOOS), alternativeArchKeywords(rt.GOARCH)>>

\* Mutant of ScanKeywords: the count is tested after the keyword at hand has
\* been counted.
RECURSIVE ScanKeywordsCountFirst(_, _, _, _, _)
ScanKeywordsCountFirst(asset, kws, i, kwCount, potential) ==
    IF i > Len(kws) THEN potential
    ELSE LET n == IF Contains(ToLower(asset.Name), kws[i]) THEN kwCount + 1 ELSE kwCount
         IN  ScanKeywordsCountFirst(asset, kws, i + 1, n,
                                    IF n >= 2 THEN Append(potential, asset) ELSE potential)

\* The inner loop (part_000:86-95) from keyword i on, kwCount matches so far.
RECURSIVE ScanKeywords(_, _, _, _, _)
ScanKeywords(asset, kws, i, kwCount, potential) ==
    IF i > Len(kws) THEN potential
    ELSE ScanKeywords(asset, kws, i + 1,
                      IF Contains(ToLower(asset.Name), kws[i]) THEN kwCount + 1 ELSE kwCount,
                      IF kwCount >= 2 THEN Append(potential, asset) ELSE potential)

\* The outer loop (part_000:84-96) from asset j on.
RECURSIVE ScoreAssets(_, _, _, _)
ScoreAssets(assets, kws, j, potential) ==
    IF j > Len(assets) THEN potential
    ELSE ScoreAssets(assets, kws, j + 1, ScanKeywords(assets[j], kws, 1, 0, potential))

Asset(name, url) == [Name |-> name, BrowserDownloadUrl |-> url]

\* Decoded payloads of releases/latest: the release of the specification's
\* example, a release whose asset names are capitalised and carry alias
\* words, and a release with no tag and no assets.
Releases ==
    { [TagName |-> "v2",
       Assets |-> << Asset(<<"tool", "linux", "amd64">>, "asset1"),
                     Asset(<<"tool", "darwin", "arm64">>, "asset2"),
                     Asset(<<"tool", "windows", "amd64">>, "asset3") >>],
      [TagName |-> "v2",
       Assets |-> << Asset(<<"tool", "Linux", "AMD64", "x86">>, "asset1"),
                     Asset(<<"tool", "macos", "darwin", "arm64">>, "asset2") >>],
      [TagName |-> "", Assets |-> <<>>] }

\* Mutant of GithubGet: the status of the response is not checked (as in the
\* earlier getFullGithubUrl, main.go:225-235).
GithubGetUnchecked ==
    /\ pc = "gh_get"
    /\ UNCHANGED <<cfg, opts, downloadUrl, ppkg, files, handles, acq, cleanupCalls,
                   fs, walk, pkg, installErr, linkLog, steps>>
    /\ \E netFails \in BOOLEAN, status \in {200, 403, 404} :
         IF netFails
         THEN /\ pc' = "returned" /\ err' = "GET releases failed" /\ gh' = gh
         ELSE /\ pc' = "gh_decode" /\ err' = "nil"
              /\ gh' = [gh EXCEPT !.status = status]

\* part_000:54-70: http.Get of the releases/latest endpoint and the status check.
GithubGet ==
    /\ pc = "gh_get"
    /\ UNCHANGED <<cfg, opts, downloadUrl, ppkg, files, handles, acq, cleanupCalls,
                   fs, walk, pkg, installErr, linkLog, steps>>
    /\ \E netFails \in BOOLEAN, status \in {200, 403, 404} :
         IF netFails
         THEN /\ pc' = "returned" /\ err' = "GET releases failed" /\ gh' = gh
         ELSE IF status # 200
         THEN /\ pc' = "returned" /\ err' = "non-OK status code"
              /\ gh' = [gh EXCEPT !.status = status]
         ELSE /\ pc' = "gh_decode" /\ err' = "nil"
              /\ gh' = [gh EXCEPT !.status = status]

\* part_000:72-101: decoding the body, scoring the assets, printing the list.
GithubDecode ==
    /\ pc = "gh_decode"
    /\ UNCHANGED <<cfg, opts, downloadUrl, ppkg, files, handles, acq, cleanupCalls,
                   fs, walk, pkg, installErr, linkLog, steps>>
    /\ \/ /\ pc' = "returned" /\ err' = "decode failed"
          /\ gh' = [gh EXCEPT !.decoded = TRUE]
       \/ \E release \in Releases, rt \in Runtimes :
            /\ gh' = [gh EXCEPT !.decoded = TRUE, !.scored = TRUE,
                         !.release = release, !.runtime = rt,
                         !.potentialAssets =
                             ScoreAssets(release.Assets, wantedKeywords(rt), 1, <<>>)]
            /\ pc' = "gh_prompt" /\ err' = "nil"

\* Counting up to a limit.
CountTo(n, limit) == IF n < limit THEN n + 1 ELSE n

\* One turn of the prompt loop (part_000:105-112) and, when it ends, the
\* return (114-118) into main.go:388-390, where the function's locals are
\* gone.  isInt: the line read is an integer.  gh.prompts counts the answers
\* read, up to MaxPrompts; the loop itself has no limit.
GithubPrompt ==
    /\ pc = "gh_prompt"
    /\ UNCHANGED <<cfg, ppkg, files, handles, acq, cleanupCalls, fs, walk, pkg,
                   installErr, linkLog, steps>>
    /\ \E isInt \in BOOLEAN, n \in -1..Len(gh.potentialAssets) :
         IF ~isInt
         THEN /\ pc' = "panicked" /\ err' = "nil"
              /\ gh' = [gh EXCEPT !.prompts = CountTo(@, MaxPrompts)]
              /\ UNCHANGED <<opts, downloadUrl>>
         ELSE IF n >= Len(gh.potentialAssets) \/ n < 0
         THEN /\ pc' = "gh_prompt" /\ err' = "nil"
              /\ gh' = [gh EXCEPT !.prompts = CountTo(@, MaxPrompts), !.chosen = n]
              /\ UNCHANGED <<opts, downloadUrl>>
         ELSE /\ pc' = "from_remote" /\ err' = "nil"
              /\ gh' = [NoGh EXCEPT !.status = gh.status, !.decoded = TRUE,
                                    !.scored = TRUE]
              /\ opts' = [opts EXCEPT !.Name = getGithubRepoName(cfg.url),
                                      !.Version = gh.release.TagName]
              /\ downloadUrl' = gh.potentialAssets[n + 1].BrowserDownloadUrl

(***************************************************************************)
(* The archive: the tree tar materialises under the store directory.       *)
(***************************************************************************)
\* The entries an archive may hold, relative to the store directory.
TreeUniverse ==
    { DirEntry(<<"a">>), FileEntry(<<"a", "tool">>, TRUE),
      DirEntry(<<"pkgroot">>),
      DirEntry(<<"pkgroot", "bin">>), FileEntry(<<"pkgroot", "bin", "tool">>, TRUE),
      DirEntry(<<"pkgroot", "lib">>), FileEntry(<<"pkgroot", "lib", "libfoo.so">>, FALSE),
      FileEntry(<<"tool">>, TRUE),
      DirEntry(<<"zdir">>) }

\* An archive holds the directory of each of its entries.
Trees ==
    { t \in SUBSET TreeUniverse :
        \A e \in t : Len(e.path) > 1 => DirEntry(Dir(e.path)) \in t }

\* What a tar that fails may have written before it stopped.
PartialTrees == {t \in Trees : Cardinality(t) <= 1}

\* The entries of tree t extracted under directory full.
Extracted(full, t) == {[e EXCEPT !.path = full \o e.path] : e \in t}

(***************************************************************************)
(* filepath.WalkDir: the root first, then the entries of each directory in *)
(* lexical order, depth-first; a directory for which the callback returns  *)
(* SkipDir is not read.                                                    *)
(***************************************************************************)
Children(f, d) == {e \in f : Len(e.path) = Len(d) + 1 /\ IsPrefix(d, e.path)}

\* os.ReadDir: the entries of a directory sorted by file name.
RECURSIVE SortEntries(_)
SortEntries(S) ==
    IF S = {} THEN <<>>
    ELSE LET m == CHOOSE x \in S : \A y \in S : Rank(Base(x.path)) <= Rank(Base(y.path))
         IN  <<m>> \o SortEntries(S \ {m})

ReadDir(f, d) == SortEntries(Children(f, d))

EntryAt(f, p) == CHOOSE e \in f : e.path = p

(***************************************************************************)
(* Install: layout detection (package.go:207-250).                         *)
(***************************************************************************)
\* package.go:236.
IsMarker(dirname) == dirname = "bin" \/ dirname = "lib" \/ dirname = "share"

\* The callback returns filepath.SkipDir (package.go:232-242).
DetectSkips(st, e) ==
    e.kind = "dir" /\ (st.topLevel # <<>> \/ IsMarker(Base(e.path)))

\* The callback's assignments for entry e (package.go:217-242).
DetectVisit(st, e) ==
    LET seen == [st EXCEPT !.visited = Append(@, e.path)] IN
    IF e.kind # "dir"
    THEN IF e.exec THEN [seen EXCEPT !.executables = Append(@, e.path)] ELSE seen
    ELSE IF st.topLevel # <<>>
    THEN [seen EXCEPT !.dirs = Append(@, e.path)]
    ELSE IF IsMarker(Base(e.path))
    THEN [seen EXCEPT !.topLevel = Dir(e.path), !.dirs = Append(@, e.path)]
    ELSE seen

RECURSIVE DetectWalk(_, _, _)
RECURSIVE DetectEntries(_, _, _, _)
\* walkDir on entry e: the callback, then the directory's entries.
DetectWalk(f, st, e) ==
    LET after == DetectVisit(st, e) IN
    IF e.kind # "dir" \/ DetectSkips(st, e)
    THEN after
    ELSE DetectEntries(f, [after EXCEPT !.entered = @ \cup {e.path}], ReadDir(f, e.path), 1)

DetectEntries(f, st, entries, i) ==
    IF i > Len(entries) THEN st
    ELSE DetectEntries(f, DetectWalk(f, st, entries[i]), entries, i + 1)

\* filepath.WalkDir(pkg.FullPath, ...) of package.go:212.
Detect(f, full) == DetectWalk(f, NoWalk, EntryAt(f, full))

(***************************************************************************)
(* Install: linking (package.go:252-289).  st.fs is the file system,       *)
(* st.failed says that the callback returned an error (which ends the      *)
(* walk), st.log records each attempt.                                     *)
(***************************************************************************)
Attempt(kind, src, dst, ok) == [kind |-> kind, src |-> src, dst |-> dst, ok |-> ok]

\* Mutant of LinkVisit: the destination is the entry's base name under the
\* link root, not its path relative to the canonical root.
LinkVisitFlat(st, e, topLevel, symlinkPath) ==
    LET dst == Join(symlinkPath, <<Base(e.path)>>) IN
    IF e.kind = "dir"
    THEN IF MkdirAllOk(st.fs, dst)
         THEN [st EXCEPT !.fs = MkdirAll(@, dst),
                         !.log = Append(@, Attempt("dir", e.path, dst, TRUE))]
         ELSE [st EXCEPT !.failed = TRUE,
                         !.log = Append(@, Attempt("dir", e.path, dst, FALSE))]
    ELSE IF SymlinkOk(st.fs, dst)
         THEN [st EXCEPT !.fs = Symlink(@, e.path, dst),
                         !.log = Append(@, Attempt("link", e.path, dst, TRUE))]
         ELSE [st EXCEPT !.log = Append(@, Attempt("link", e.path, dst, FALSE))]

\* The callback of the canonical-root walk for entry e (package.go:254-272).
LinkVisit(st, e, topLevel, symlinkPath) ==
    LET dst == Join(symlinkPath, Rel(topLevel, e.path)) IN
    IF e.kind = "dir"
    THEN IF MkdirAllOk(st.fs, dst)
         THEN [st EXCEPT !.fs = MkdirAll(@, dst),
                         !.log = Append(@, Attempt("dir", e.path, dst, TRUE))]
         ELSE [st EXCEPT !.failed = TRUE,
                         !.log = Append(@, Attempt("dir", e.path, dst, FALSE))]
    ELSE IF SymlinkOk(st.fs, dst)
         THEN [st EXCEPT !.fs = Symlink(@, e.path, dst),
                         !.log = Append(@, Attempt("link", e.path, dst, TRUE))]
         ELSE [st EXCEPT !.log = Append(@, Attempt("link", e.path, dst, FALSE))]

RECURSIVE LinkWalk(_, _, _, _)
RECURSIVE LinkEntries(_, _, _, _, _)
LinkWalk(st, e, topLevel, symlinkPath) ==
    LET after == LinkVisit(st, e, topLevel, symlinkPath) IN
    IF e.kind # "dir" \/ after.failed
    THEN after
    ELSE LinkEntries(after, ReadDir(after.fs, e.path), 1, topLevel, symlinkPath)

LinkEntries(st, entries, i, topLevel, symlinkPath) ==
    IF i > Len(entries) \/ st.failed THEN st
    ELSE LinkEntries(LinkWalk(st, entries[i], topLevel, symlinkPath),
                     entries, i + 1, topLevel, symlinkPath)

\* The loop over dirs (package.go:253-279): a walk that failed is logged and
\* the next link source is walked.
RECURSIVE LinkSources(_, _, _, _, _)
LinkSources(st, dirs, i, topLevel, symlinkPath) ==
    IF i > Len(dirs) THEN st
    ELSE LinkSources([LinkWalk([st EXCEPT !.failed = FALSE], EntryAt(st.fs, dirs[i]),
                               topLevel, symlinkPath) EXCEPT !.failed = FALSE],
                     dirs, i + 1, topLevel, symlinkPath)

\* Mutant of LinkExecutables: the loop ends at the first os.Symlink that fails.
RECURSIVE LinkExecutablesUntilFailure(_, _, _, _)
LinkExecutablesUntilFailure(st, executables, i, symlinkPath) ==
    IF i > Len(executables) THEN st
    ELSE LET e == executables[i]
             dest == Join(Join(symlinkPath, <<"bin">>), <<Base(e)>>)
         IN  IF SymlinkOk(st.fs, dest)
             THEN LinkExecutablesUntilFailure(
                      [st EXCEPT !.fs = Symlink(@, e, dest),
                                 !.log = Append(@, Attempt("link", e, dest, TRUE))],
                      executables, i + 1, symlinkPath)
             ELSE [st EXCEPT !.log = Append(@, Attempt("link", e, dest, FALSE))]

\* The fallback loop over executables (package.go:281-288).
RECURSIVE LinkExecutables(_, _, _, _)
LinkExecutables(st, executables, i, symlinkPath) ==
    IF i > Len(executables) THEN st
    ELSE LET e == executables[i]
             dest == Join(Join(symlinkPath, <<"bin">>), <<Base(e)>>)
         IN  LinkExecutables(
                 IF SymlinkOk(st.fs, dest)
                 THEN [st EXCEPT !.fs = Symlink(@, e, dest),
                                 !.log = Append(@, Attempt("link", e, dest, TRUE))]
                 ELSE [st EXCEPT !.log = Append(@, Attempt("link", e, dest, FALSE))],
                 executables, i + 1, symlinkPath)

\* package.go:252-289: one of the two strategies.
Link(f, w, symlinkPath) ==
    LET st0 == [fs |-> f, failed |-> FALSE, log |-> <<>>] IN
    IF w.topLevel # <<>>
    THEN LinkSources(st0, w.dirs, 1, w.topLevel, symlinkPath)
    ELSE LinkExecutables(st0, w.executables, 1, symlinkPath)

(***************************************************************************)
(* PackageManager.Install (package.go:343-348) and PreinstallPackage.Install*)
(* (package.go:186-294), then the end of actionInstall (main.go:399-408).  *)
(***************************************************************************)
\* Package.FullPath (package.go:193).
FullPath(p) == Join(PackageManagerOpts.StorePath, p.Path)

\* pkg := &Package{...} (package.go:191-195); no later statement of Install
\* assigns a field of it.
NewPackage(p) == [isNil |-> FALSE, FullPath |-> FullPath(p), Symlinked |-> FALSE]

\* One entry of the history of Install's steps.
Step(name, ok) == [step |-> name, ok |-> ok]

\* InstallMkdir without the test of os.MkdirAll's error (package.go:197-199).
InstallMkdirUnchecked ==
    /\ pc = "install"
    /\ UNCHANGED <<cfg, err, opts, downloadUrl, ppkg, files, handles, acq,
                   cleanupCalls, walk, pkg, linkLog, gh>>
    /\ \E denied \in BOOLEAN :
         IF ~ppkg.Initialised
         THEN /\ installErr' = "package is not initialised" /\ pc' = "finish"
              /\ UNCHANGED <<fs, steps>>
         ELSE /\ installErr' = "nil" /\ pc' = "install_extract"
              /\ fs' = IF denied \/ ~MkdirAllOk(fs, FullPath(ppkg))
                       THEN fs ELSE MkdirAll(fs, FullPath(ppkg))
              /\ steps' = Append(steps, Step("mkdir", ~denied /\ MkdirAllOk(fs, FullPath(ppkg))))

\* package.go:187-199: the Initialised guard, the Package value, os.MkdirAll.
\* denied: the operating system refuses to create the directory.
InstallMkdir ==
    /\ pc = "install"
    /\ UNCHANGED <<cfg, err, opts, downloadUrl, ppkg, files, handles, acq,
                   cleanupCalls, walk, pkg, linkLog, gh>>
    /\ \E denied \in BOOLEAN :
         IF ~ppkg.Initialised
         THEN /\ installErr' = "package is not initialised" /\ pc' = "finish"
              /\ UNCHANGED <<fs, steps>>
         ELSE IF denied \/ ~MkdirAllOk(fs, FullPath(ppkg))
         THEN /\ installErr' = "mkdir store" /\ pc' = "finish" /\ fs' = fs
              /\ steps' = Append(steps, Step("mkdir", FALSE))
         ELSE /\ installErr' = "nil" /\ pc' = "install_extract"
              /\ fs' = MkdirAll(fs, FullPath(ppkg))
              /\ steps' = Append(steps, Step("mkdir", TRUE))

\* package.go:201-205: tarExtract (part_000:133-145) and, when it succeeded,
\* ppkg.Cleanup().  tree: what the archive holds; ok: tar's exit status.  A tar
\* that fails has written none or some of the archive (partial) by then.
InstallExtract ==
    /\ pc = "install_extract"
    /\ UNCHANGED <<cfg, err, opts, downloadUrl, ppkg, acq, walk, pkg, linkLog, gh>>
    /\ \E ok \in BOOLEAN, tree \in Trees :
         IF ~ok
         THEN /\ tree \in PartialTrees
              /\ fs' = fs \cup Extracted(FullPath(ppkg), tree)
              /\ installErr' = "extract" /\ pc' = "finish"
              /\ steps' = Append(steps, Step("extract", FALSE))
              /\ UNCHANGED <<files, handles, cleanupCalls>>
         ELSE /\ fs' = fs \cup Extracted(FullPath(ppkg), tree)
              /\ steps' = Append(steps, Step("extract", TRUE))
              /\ cleanupCalls' = cleanupCalls + 1
              /\ files' = CleanupFiles(ppkg, files)
              /\ handles' = CleanupHandles(ppkg, handles)
              /\ installErr' = "nil" /\ pc' = "install_walk"

\* package.go:207-250: the detection walk.  walkFails: the walk reports an
\* error of the file system (the callback returns it).
InstallWalk ==
    /\ pc = "install_walk"
    /\ UNCHANGED <<cfg, err, opts, downloadUrl, ppkg, files, handles, acq,
                   cleanupCalls, fs, pkg, linkLog, gh>>
    /\ \E walkFails \in BOOLEAN :
         IF walkFails
         THEN /\ installErr' = "walk" /\ pc' = "finish" /\ walk' = walk
              /\ steps' = Append(steps, Step("walk", FALSE))
         ELSE /\ installErr' = "nil" /\ pc' = "install_link"
              /\ walk' = Detect(fs, FullPath(ppkg))
              /\ steps' = Append(steps, Step("walk", TRUE))

\* package.go:252-293: linking and the return of the Package.
InstallLink ==
    /\ pc = "install_link"
    /\ UNCHANGED <<cfg, err, opts, downloadUrl, ppkg, files, handles, acq,
                   cleanupCalls, walk, gh>>
    /\ LET linked == Link(fs, walk, PackageManagerOpts.SymlinkPath) IN
         /\ fs' = linked.fs
         /\ linkLog' = linked.log
    /\ steps' = Append(steps, Step("link", TRUE))
    /\ pkg' = NewPackage(ppkg)
    /\ installErr' = "nil"
    /\ pc' = "finish"

\* main.go:399-408: ppkg.Cleanup() after pm.Install, then the return.
ActionInstallFinish ==
    /\ pc = "finish"
    /\ UNCHANGED <<cfg, opts, downloadUrl, ppkg, acq, fs, walk, pkg, installErr,
                   linkLog, steps, gh>>
    /\ cleanupCalls' = cleanupCalls + 1
    /\ IF CleanupPanics(ppkg)
       THEN /\ pc' = "panicked" /\ err' = "nil"
            /\ UNCHANGED <<files, handles>>
       ELSE /\ files' = CleanupFiles(ppkg, files)
            /\ handles' = CleanupHandles(ppkg, handles)
            /\ pc' = "returned"
            /\ err' = installErr

Next ==
    \/ ActionInstallStart
    \/ AcquireFromFile
    \/ ParseUrl
    \/ GithubGet
    \/ GithubDecode
    \/ GithubPrompt
    \/ AcquireFromRemote
    \/ InstallMkdir
    \/ InstallExtract
    \/ InstallWalk
    \/ InstallLink
    \/ ActionInstallFinish

Spec == Init /\ [][Next]_vars

\* The operator picks one of the listed candidates.
ValidChoice == GithubPrompt /\ pc' = "from_remote"

\* The invocation with an operator at the prompt: Scanln returns each time it
\* is called, so the prompt loop keeps turning (weak fairness of GithubPrompt),
\* and an operator who can pick a listed candidate at every prompt does so at
\* some prompt (strong fairness of ValidChoice).
FairSpec == Spec /\ WF_vars(GithubPrompt) /\ SF_vars(ValidChoice)

\* actionInstall has returned or the process has panicked.
Terminated == pc \in {"returned", "panicked"}

(***************************************************************************)
(* The claims.                                                             *)
(***************************************************************************)
AcquisitionSucceeded == acq.stage = "ok"

AcquisitionFailedEarlier == acq.stage \notin {"none", "ok"}

\* C1: on every exit path of actionInstall on which an archive was acquired
\* (success, store-directory failure, extraction failure, walk failure),
\* Cleanup has been invoked exactly once: never zero times, never twice.
C1_CleanupExactlyOnce ==
    (pc = "returned" /\ AcquisitionSucceeded) => cleanupCalls = 1

\* An exit path of C1's kind on which Cleanup ran once: extraction failed.
C1_Witness ==
    pc = "returned" /\ AcquisitionSucceeded /\ installErr = "extract" /\ cleanupCalls = 1

\* C2: Cleanup never raises: after NewPackageFromFile or NewPackageFromRemote
\* has failed, Cleanup returns normally and actionInstall returns the
\* acquisition error to its caller instead of aborting.
C2_CleanupNeverRaises ==
    AcquisitionFailedEarlier => (pc = "returned" /\ err # "nil")

C4_TempReleasedOnFailure ==
    (Terminated /\ acq.mode = "disk" /\ acq.stage \in {"get", "copy", "open"}) =>
        /\ files.tmp = "absent"
        /\ handles.tempFile # "open"
        /\ handles.reader # "open"

\* C5: constructing the package identity fails if and only if the name or the
\* version is empty; when it fails no Id or Path is assigned and no
\* acquisition (GET, temp file, file open) is attempted.
C5_IdentityFailsIffEmpty ==
    acq.stage # "none" =>
        /\ (acq.stage = "setOpts") <=> (opts.Name = "" \/ opts.Version = "")
        /\ acq.stage = "setOpts" =>
             /\ ppkg.Id = "" /\ ppkg.Path = <<>>
             /\ files = [fp |-> cfg.localFile, tmp |-> "absent"]
             /\ handles = [tempFile |-> "none", reader |-> "none", body |-> "none"]
             /\ acq.status = 0
        /\ acq.stage = "ok" =>
             /\ ppkg.Id \in Ids
             /\ ppkg.Path = <<opts.Name, opts.Version, ppkg.Id>>

\* The identity was refused for an empty name alone.
C5_Witness ==
    acq.stage = "setOpts" /\ opts.Name = "" /\ opts.Version # "" /\ ppkg.Id = ""

\* C9: every Package that Install returns without error has Symlinked = true.
C9_ReturnedPackageIsLinked ==
    (~pkg.isNil /\ installErr = "nil") => pkg.Symlinked

\* C10: when the release endpoint answers with a status other than 200,
\* fetchLatestGithubAsset returns an error without decoding the body, without
\* building a candidate list and without prompting the operator.
C10_NonOkStatusIsRefused ==
    (gh.status # 0 /\ gh.status # 200) =>
        /\ pc = "returned" /\ err = "non-OK status code"
        /\ ~gh.decoded /\ ~gh.scored
        /\ gh.potentialAssets = <<>> /\ gh.prompts = 0 /\ gh.chosen = -1
        /\ opts.Name = cfg.name /\ opts.Version = cfg.version /\ downloadUrl = "req"

\* The endpoint answered 403 and the error was returned.
C10_Witness ==
    gh.status = 403 /\ pc = "returned" /\ err = "non-OK status code" /\ ~gh.decoded

\* The entries under the link root, the root itself excluded.
UnderLinkRoot ==
    {e \in fs : IsPrefix(cfg.symlinkPath, e.path) /\ e.path # cfg.symlinkPath}

\* C6: when the extracted tree holds no directory named bin, lib or share and
\* the link root is freshly initialised, Install creates a symbolic link
\* link-root/bin/<basename> for each executable file of the tree (for the
\* single file tool: exactly link-root/bin/tool) and nothing else under the
\* link root (the directory link-root/bin that holds the links apart).
C6_FallbackLayout ==
    (~pkg.isNil /\ walk.topLevel = <<>> /\ cfg.linkRoot = {}) =>
        UnderLinkRoot \ {DirEntry(cfg.symlinkPath \o <<"bin">>)}
          = { LinkEntry(cfg.symlinkPath \o <<"bin", Base(x)>>, x) :
                x \in Range(walk.executables) }

\* The directories of the tree under d, d first, depth-first in lexical order.
RECURSIVE PreorderDirs(_, _)
RECURSIVE PreorderOver(_, _, _)
PreorderDirs(f, d) ==
    <<d>> \o PreorderOver(f, SortEntries({e \in Children(f, d) : e.kind = "dir"}), 1)

PreorderOver(f, ds, i) ==
    IF i > Len(ds) THEN <<>>
    ELSE PreorderDirs(f, ds[i].path) \o PreorderOver(f, ds, i + 1)

PositionIn(seq, x) == CHOOSE i \in 1..Len(seq) : seq[i] = x

\* The rule of C7, for the walk that has just ended.
C7_DetectionRule ==
    pc = "install_link" =>
        LET order == PreorderDirs(fs, FullPath(ppkg))
            markers == {i \in 1..Len(order) : Base(order[i]) \in {"bin", "lib", "share"}}
        IN  IF markers = {}
            THEN /\ walk.topLevel = <<>> /\ walk.dirs = <<>>
                 /\ walk.entered = Range(order)
            ELSE LET m == CHOOSE i \in markers : \A j \in markers : i <= j
                     IsSource(d) ==
                         \/ PositionIn(order, d) = m
                         \/ /\ PositionIn(order, d) > m
                            /\ PositionIn(order, Dir(d)) < m
                 IN  /\ walk.topLevel = Dir(order[m])
                     /\ walk.dirs = SelectSeq(order, IsSource)
                     /\ walk.entered \cap Range(walk.dirs) = {}
                     /\ \A j \in 1..(m - 1) :
                          order[j] \in walk.entered /\ order[j] \notin Range(walk.dirs)

\* The tree of the specification's example.
ExampleTree ==
    { DirEntry(<<"pkgroot">>),
      DirEntry(<<"pkgroot", "bin">>), FileEntry(<<"pkgroot", "bin", "tool">>, TRUE),
      DirEntry(<<"pkgroot", "lib">>), FileEntry(<<"pkgroot", "lib", "libfoo.so">>, FALSE) }

ExampleExtracted ==
    {e \in fs : IsPrefix(FullPath(ppkg), e.path) /\ e.path # FullPath(ppkg)}
        = Extracted(FullPath(ppkg), ExampleTree)

\* The example of C7.
C7_Example ==
    (pc = "install_link" /\ ExampleExtracted) =>
        /\ walk.topLevel = FullPath(ppkg) \o <<"pkgroot">>
        /\ walk.dirs = << FullPath(ppkg) \o <<"pkgroot", "bin">>,
                          FullPath(ppkg) \o <<"pkgroot", "lib">> >>

\* C7: walking the extracted tree depth-first in lexical order, the canonical
\* root is the parent of the first directory named bin, lib or share;
\* linkSources is that directory followed by every directory encountered later,
\* in walk order; no link source is descended into; the directories visited
\* before the first marker are descended and are no link sources.  For the tree
\* {pkgroot/bin/tool, pkgroot/lib/libfoo.so}: canonical root pkgroot, link
\* sources bin and lib.
C7_LayoutDetection == C7_DetectionRule /\ C7_Example

\* The walk of the example under a store directory that is no marker.
C7_Witness ==
    /\ pc = "install_link" /\ ExampleExtracted
    /\ walk.topLevel = FullPath(ppkg) \o <<"pkgroot">>
    /\ Len(walk.dirs) = 2

\* The paths that existed before Install linked anything.
PathsBeforeLinking ==
    {e.path : e \in cfg.linkRoot} \cup {cfg.symlinkPath}
        \cup {e.path : e \in {x \in fs : IsPrefix(DEFAULT_STORE_PATH, x.path)}}

\* The entries of the store inside a link source.
InLinkSources ==
    {e \in fs : \E i \in 1..Len(walk.dirs) : IsPrefix(walk.dirs[i], e.path)}

LinkDestination(e) == Join(cfg.symlinkPath, Rel(walk.topLevel, e.path))

NoDestinationExisted ==
    \A e \in InLinkSources : LinkDestination(e) \notin PathsBeforeLinking

RemoteGetUnsuccessful ==
    /\ acq.mode \in {"disk", "memory"}
    /\ acq.stage = "get" \/ acq.status \notin {0, 200}

\* Install has been handed the package, so its reader goes to extraction.
HandedToInstall ==
    pc \in {"install", "install_extract", "install_walk", "install_link", "finish"}

\* C11: in disk-buffered and in in-memory mode, when the GET fails at the
\* network or the server answers with a non-success status, NewPackageFromRemote
\* returns no package handle and nothing is passed on to extraction.
C11_RemoteFailureIsRefused ==
    RemoteGetUnsuccessful => (ppkg.isNil /\ ~HandedToInstall)

\* The case of C11 that the code gets wrong has been reached: a 404 response
\* whose body is a package handle in Install, in either mode.
C11_Witness ==
    /\ acq.stage = "ok" /\ acq.status = 404
    /\ ~ppkg.isNil /\ pc = "install_extract"

(***************************************************************************)
(* C12: which URLs the asset resolver handles.                             *)
(***************************************************************************)
\* The URL is github.com/owner/repo: two path segments, neither of them empty.
IsRepoUrl(u) ==
    /\ u.host = "github.com"
    /\ Len(u.segs) = 3
    /\ u.segs[1] = "" /\ u.segs[2] # "" /\ u.segs[3] # ""

\* actionInstall went from the URL checks straight to NewPackageFromRemote.
PlainAcquisition == pc = "from_remote" /\ gh = NoGh

\* C12: a URL is handed to fetchLatestGithubAsset if and only if its host is
\* github.com and its path is exactly two non-empty segments, owner and repo;
\* every other http(s) URL goes to plain acquisition.
C12_ResolverIffRepoUrl ==
    /\ pc = "gh_get" => IsRepoUrl(cfg.url)
    /\ PlainAcquisition => ~IsRepoUrl(cfg.url)

\* The URL the code and the claim disagree on, github.com//infpm with an empty
\* owner, is at the asset resolver.
C12_Witness ==
    /\ pc = "gh_get"
    /\ cfg.url.segs = <<"", "", "infpm">>

(***************************************************************************)
(* C13: the order of Install's steps and what a failed step leaves.        *)
(***************************************************************************)
InstallOrder == <<"mkdir", "extract", "walk", "link">>

\* The steps Install ran are an initial part of InstallOrder, and every step
\* but the last one run has succeeded.
StepsInOrder ==
    /\ Len(steps) <= Len(InstallOrder)
    /\ \A i \in 1..Len(steps) :
         /\ steps[i].step = InstallOrder[i]
         /\ i < Len(steps) => steps[i].ok

\* The entries under the link root.
UnderSymlinkPath == {e \in fs : IsPrefix(cfg.symlinkPath, e.path)}

\* C13: Install runs create-store-directory, extract, detect, link in this
\* order, each step only after the previous one succeeded.  When the directory
\* creation fails no extraction is attempted; when the extraction fails Install
\* returns an error and no package, nothing has been created under the link
\* root, and the store directory created before is still there.
C13_InstallStepOrder ==
    /\ StepsInOrder
    /\ installErr = "mkdir store" =>
         /\ steps = <<Step("mkdir", FALSE)>>
         /\ pkg.isNil
    /\ installErr = "extract" =>
         /\ steps = <<Step("mkdir", TRUE), Step("extract", FALSE)>>
         /\ pkg.isNil
         /\ pc = "returned" => err = "extract"
         /\ UnderSymlinkPath \subseteq cfg.linkRoot \cup {DirEntry(cfg.symlinkPath)}
         /\ linkLog = <<>>
         /\ DirEntry(FullPath(ppkg)) \in fs

\* actionInstall has returned the error of an extraction that failed after tar
\* had written part of the archive into the store directory.
C13_Witness ==
    /\ pc = "returned" /\ err = "extract"
    /\ steps = <<Step("mkdir", TRUE), Step("extract", FALSE)>>
    /\ \E e \in fs : IsPrefix(FullPath(ppkg), e.path) /\ e.path # FullPath(ppkg)

(***************************************************************************)
(* C14: best-effort linking.                                               *)
(***************************************************************************)
\* Install has run its linking step.
Linked == Len(steps) = 4

\* Some attempt of kind k on source path src is in the log.
Attempted(k, src) ==
    \E i \in 1..Len(linkLog) : linkLog[i].kind = k /\ linkLog[i].src = src

\* The walk of link source d was cut short by a directory it could not create.
DirectoryRefused(d) ==
    \E i \in 1..Len(linkLog) :
        /\ linkLog[i].kind = "dir" /\ ~linkLog[i].ok
        /\ IsPrefix(d, linkLog[i].src)

\* C14: in both strategies a link that cannot be created (its destination
\* exists, or the directory it goes into does not) does not end the linking:
\* every file of every link source (canonical root) and every executable
\* (fallback) has its link attempted, and Install returns the package with no
\* error.
C14_BestEffortLinking ==
    Linked =>
        /\ ~pkg.isNil /\ installErr = "nil"
        /\ pc = "returned" => err = "nil"
        /\ walk.topLevel # <<>> =>
             \A d \in Range(walk.dirs) : ~DirectoryRefused(d) =>
                 \A e \in fs : (IsPrefix(d, e.path) /\ e.kind # "dir")
                                  => Attempted("link", e.path)
        /\ walk.topLevel = <<>> =>
             /\ Len(linkLog) = Len(walk.executables)
             /\ \A k \in 1..Len(linkLog) :
                  linkLog[k].kind = "link" /\ linkLog[k].src = walk.executables[k]

\* actionInstall returned no error although a link could not be created, and
\* another link was attempted after the one that failed.
C14_Witness ==
    /\ pc = "returned" /\ err = "nil" /\ ~pkg.isNil
    /\ \E i, j \in 1..Len(linkLog) :
         /\ i < j
         /\ linkLog[i].kind = "link" /\ ~linkLog[i].ok
         /\ linkLog[j].kind = "link"

(***************************************************************************)
(* C15: linking stays under the link root.                                 *)
(***************************************************************************)
\* C15: every directory and every symbolic link that Install's linking step
\* writes, under either strategy, is at a path under SymlinkPath.
C15_LinksUnderLinkRoot ==
    \A i \in 1..Len(linkLog) : IsPrefix(cfg.symlinkPath, linkLog[i].dst)

\* Install created a directory that is not under the link root, for a link
\* source that is not inside the canonical root.
C15_Witness ==
    /\ Linked
    /\ \E i \in 1..Len(linkLog) :
         /\ linkLog[i].kind = "dir" /\ linkLog[i].ok
         /\ ~IsPrefix(walk.topLevel, linkLog[i].src)
         /\ ~IsPrefix(cfg.symlinkPath, linkLog[i].dst)
         /\ DirEntry(linkLog[i].dst) \in fs

(***************************************************************************)
(* C16: asset scoring.                                                     *)
(***************************************************************************)
\* fetchLatestGithubAsset has built its candidate list and is at the prompt.
Scored == pc = "gh_prompt"

\* The keyword positions at which asset a is appended: those before which at
\* least two keywords are contained in the lower-cased name.
AppendPositions(a, kws) ==
    {i \in 1..Len(kws) :
        Cardinality({k \in 1..(i - 1) : Contains(ToLower(a.Name), kws[k])}) >= 2}

\* How often asset a is in the candidate list.
Occurrences(a) ==
    Cardinality({i \in 1..Len(gh.potentialAssets) : gh.potentialAssets[i] = a})

\* The place of asset a in the release's asset list.
AssetIndex(a) ==
    CHOOSE j \in 1..Len(gh.release.Assets) : gh.release.Assets[j] = a

ExampleRelease ==
    [TagName |-> "v2",
     Assets |-> << Asset(<<"tool", "linux", "amd64">>, "asset1"),
                   Asset(<<"tool", "darwin", "arm64">>, "asset2"),
                   Asset(<<"tool", "windows", "amd64">>, "asset3") >>]

\* C16: the keywords are OS, architecture, OS alias, architecture alias, in this
\* order; each asset is in the candidate list once for every keyword position
\* before which two or more keywords are contained in its lower-cased name, the
\* candidates are in the order of the release's assets, and for the example
\* release on linux/amd64 the list holds the linux asset.
C16_AssetScoring ==
    Scored =>
        LET kws == <<gh.runtime.GOOS, gh.runtime.GOARCH,
                     alternativeArchKeywords(gh.runtime.GOOS),
                     alternativeArchKeywords(gh.runtime.GOARCH)>>
        IN  /\ Range(gh.potentialAssets) \subseteq Range(gh.release.Assets)
            /\ \A a \in Range(gh.release.Assets) :
                 Occurrences(a) = Cardinality(AppendPositions(a, kws))
            /\ \A i, j \in 1..Len(gh.potentialAssets) :
                 i < j => AssetIndex(gh.potentialAssets[i]) <= AssetIndex(gh.potentialAssets[j])
            /\ (gh.release = ExampleRelease /\ gh.runtime = [GOOS |-> "linux", GOARCH |-> "amd64"])
                 => Asset(<<"tool", "linux", "amd64">>, "asset1") \in Range(gh.potentialAssets)

\* The example release has been scored on linux/amd64: the linux asset is in
\* the list twice and the darwin asset is not in it.
C16_Witness ==
    /\ Scored
    /\ gh.release = ExampleRelease
    /\ gh.runtime = [GOOS |-> "linux", GOARCH |-> "amd64"]
    /\ Occurrences(Asset(<<"tool", "linux", "amd64">>, "asset1")) = 2
    /\ Occurrences(Asset(<<"tool", "darwin", "arm64">>, "asset2")) = 0

(***************************************************************************)
(* C17: every candidate matches the OS and the architecture.               *)
(***************************************************************************)
\* The tokens that stand for k: k itself and its alias, when it has one.
Tokens(k) == {k} \cup ({alternativeArchKeywords(k)} \ {""})

\* The lower-cased name of asset a holds one of the tokens of k as a word.
NamesToken(a, k) ==
    \E t \in Tokens(k) : \E i \in 1..Len(a.Name) : ToLower(a.Name)[i] = t

\* C17: every asset in the candidate list names the operating system (GOOS or
\* its alias) and the architecture (GOARCH or its alias), also for a GOOS or
\* GOARCH that has no alias.
C17_CandidatesMatchOsAndArch ==
    Scored =>
        \A a \in Range(gh.potentialAssets) :
            NamesToken(a, gh.runtime.GOOS) /\ NamesToken(a, gh.runtime.GOARCH)

\* On linux/amd64 (linux has no alias) the windows asset of the example
\* release is a candidate.
C17_Witness ==
    /\ Scored
    /\ gh.runtime = [GOOS |-> "linux", GOARCH |-> "amd64"]
    /\ Asset(<<"tool", "windows", "amd64">>, "asset3") \in Range(gh.potentialAssets)

(***************************************************************************)
(* C18: asset resolution terminates.                                       *)
(***************************************************************************)
\* Control is inside fetchLatestGithubAsset.
InResolver == pc \in {"gh_get", "gh_decode", "gh_prompt"}

\* C18: once the release payload has been decoded and scored, also with an
\* empty candidate list, fetchLatestGithubAsset eventually returns (a chosen
\* asset or an error) for an operator who keeps entering integers.
C18_ResolutionTerminates == Scored ~> ~InResolver

\* The payload was decoded, no asset is a candidate, and the operator has
\* answered the prompt with an integer MaxPrompts times and is asked again.
C18_Witness ==
    /\ Scored
    /\ gh.potentialAssets = <<>>
    /\ gh.prompts = MaxPrompts

(***************************************************************************)
(* C19: the canonical root lies in the package's store directory.          *)
(***************************************************************************)
\* C19: for every Id generateId can return, the canonical root that detection
\* records is the package's store directory (StorePath/Name/Version/Id) or a
\* descendant of it, and the store directory itself is not taken as a bin, lib
\* or share marker.
C19_CanonicalRootInStoreDir ==
    walk.topLevel # <<>> =>
        /\ IsPrefix(FullPath(ppkg), walk.topLevel)
        /\ FullPath(ppkg) \notin Range(walk.dirs)

\* generateId returned "share": detection took the store directory for the
\* marker and its parent, StorePath/Name/Version, for the canonical root.
C19_Witness ==
    /\ ppkg.Id = "share"
    /\ walk.dirs = <<FullPath(ppkg)>>
    /\ walk.topLevel = Dir(FullPath(ppkg))
    /\ Linked

====
